---- MODULE Spec2Model ----
(***************************************************************************)
(* PlayDex search backend: the /search endpoint (search.py), the primary   *)
(* engine (PlayDexSearch over playdex_engine.SearchEngine), the deep scan  *)
(* (VideoSearch over play-by-play data) and the known-fact table           *)
(* (FastSearch).  One search request is served at a time; the upstream     *)
(* NBA stats service answers every call with a result, a timeout or        *)
(* another error.                                                          *)
(***************************************************************************)
EXTENDS Integers, Sequences, FiniteSets, TLC

(***************************************************************************)
(* Bounds of the model.                                                    *)
(***************************************************************************)
MaxGames == 10          \* regular-season games the upstream lists at most
MaxLimit == 2           \* largest page size requested
MaxOffset == 2          \* largest offset requested
MaxFaults == 3          \* upstream failures injected while serving one request
MaxFaultyGame == 2      \* only the first games of the list may fail to load
MaxQueryLen == 3        \* words of a query given to the entity extractor
MaxNow == 2027          \* last calendar year the clock reaches
MaxCareerRows == 2      \* rows of a player's career record
MaxPlays == 5           \* plays of the playlist the video endpoint delivers

(***************************************************************************)
(* Program constants.                                                      *)
(***************************************************************************)
RetryAttempts == 3      \* range(3) of every retry loop
PoolWorkers == 2        \* ThreadPoolExecutor(max_workers=2)
PoolThreshold == 10     \* 10 < len(games)
RareGameLimit == 40     \* games_df.head(40)
CommonGameLimit == 30   \* games_df.head(30)
ResultCap == 100        \* len(all_results) >= 100
BBSeasonCount == 4      \* buzzer_beater_seasons[:4]
BBRegularHead == 10     \* season_games.head(10)

DefaultSeason == "2024-25"
FallbackSeason == "2023-24"
OldSeason == "2016-17"

NoValue == "none"
\* a player name without a known id; an opponent team with and without one
UnknownPlayer == "unknown player"
KnownTeam == "LAL"
UnknownTeam == "unknown team"
RareDetails == {"buzzer beater", "game winner"}
CommonActions == {"dunk", "three", "layup"}
ShootingActions == {"dunk", "three", "layup", "jumper"}

(***************************************************************************)
(* Generic sequence helpers.                                               *)
(***************************************************************************)
Min(a, b) == IF a < b THEN a ELSE b

RECURSIVE Concat(_)
Concat(ss) == IF ss = <<>> THEN <<>> ELSE Head(ss) \o Concat(Tail(ss))

\* Python slice s[lo:hi] for 0 <= lo <= hi
Slice(s, lo, hi) == SubSeq(s, lo + 1, Min(hi, Len(s)))

HeadN(s, n) == SubSeq(s, 1, Min(n, Len(s)))

Range(s) == {s[i] : i \in 1..Len(s)}

\* the dates of a set, latest first
RECURSIVE DatesDesc(_)
DatesDesc(D) ==
    IF D = {} THEN <<>>
    ELSE LET latest == CHOOSE d \in D : \A e \in D : d >= e
         IN  <<latest>> \o DatesDesc(D \ {latest})

\* list.sort(key=date, reverse=True) / sort_values(ascending=False): stable,
\* so the entries of one date keep their order
SortByDateDesc(s) ==
    LET ds == DatesDesc({s[i].date : i \in 1..Len(s)})
    IN  Concat([k \in 1..Len(ds) |-> SelectSeq(s, LAMBDA r : r.date = ds[k])])

IsDateDesc(s) == \A i \in 1..Len(s) : \A j \in i..Len(s) : s[i].date >= s[j].date

SamePlay(a, b) == a.gi = b.gi /\ a.ei = b.ei

(***************************************************************************)
(* Upstream reference data.  A game is identified by a number; a smaller   *)
(* number is a more recent game.  Game 1 is the player's game of the last  *)
(* 30 days (season 2024-25); game 11 is the 2016-17 playoff game and games *)
(* 12.. are the 2016-17 regular-season games.                              *)
(***************************************************************************)
GameDate(g) == 100 - g

\* the last world adds three older regular-season games of 2016-17: one with
\* a hundred dunks of the player, one with a hundred jump shots, one ordinary
DunkGame == 40
JumperGame == 41
LastGame == 42

Worlds ==
    { [nReg |-> 0, nPo |-> 0, nRecent |-> 0, nBig |-> 0],
      [nReg |-> 2, nPo |-> 0, nRecent |-> 1, nBig |-> 0],
      [nReg |-> MaxGames, nPo |-> 1, nRecent |-> 1, nBig |-> 0],
      [nReg |-> 1, nPo |-> 0, nRecent |-> 0, nBig |-> 1] }

RecentGames(w) == IF w.nRecent = 1 THEN <<1>> ELSE <<>>
PlayoffGames(w) == IF w.nPo = 1 THEN <<11>> ELSE <<>>
RegularGames(w) ==
    [i \in 1..w.nReg |-> 11 + i] \o (IF w.nBig = 1 THEN <<DunkGame, JumperGame, LastGame>> ELSE <<>>)

Row(ev, p1, p23, period, clock, desc) ==
    [ev |-> ev, p1 |-> p1, p23 |-> p23, period |-> period, clock |-> clock, desc |-> desc]

\* play-by-play rows of a game; p1: the requested player is PLAYER1 (the
\* shooter), p23: the requested player is PLAYER2 or PLAYER3.  Game 1 and the
\* first four games of 2016-17 hold the last-second plays; the later games
\* hold ordinary plays only, but for the two games with a hundred shots.
Pbp(g) ==
    CASE g = 11 -> << Row(1, TRUE, FALSE, 5, "0:0.3", {"DUNK"}),
                      Row(2, FALSE, FALSE, 4, "0:00", {"3PT"}) >>
      [] g = 12 -> << Row(1, TRUE, FALSE, 1, "5:00", {"LAYUP"}),
                      Row(2, TRUE, FALSE, 2, "0:01", {"JUMP SHOT"}),
                      Row(3, TRUE, FALSE, 4, "0:00", {"MISS", "3PT"}),
                      Row(4, FALSE, TRUE, 3, "7:10", {"MISS", "BLOCK"}) >>
      [] g \in {1, 13} -> << Row(1, TRUE, FALSE, 4, "0:00", {"3PT", "FADEAWAY", "JUMP SHOT"}),
                             Row(2, TRUE, FALSE, 1, "5:00", {"DUNK"}) >>
      [] g = 14 -> << Row(1, FALSE, FALSE, 2, "3:00", {"LAYUP"}),
                      Row(2, TRUE, FALSE, 4, "0:1.2", {"LAYUP"}) >>
      [] g = 15 -> << Row(1, FALSE, TRUE, 1, "7:10", {"MISS", "BLOCK"}) >>
      [] g = DunkGame   -> [i \in 1..ResultCap |-> Row(i, TRUE, FALSE, 2, "5:00", {"DUNK"})]
      [] g = JumperGame -> [i \in 1..ResultCap |-> Row(i, TRUE, FALSE, 2, "5:00", {"JUMP SHOT"})]
      [] OTHER  -> << Row(1, FALSE, FALSE, 3, "5:00", {"DUNK"}) >>

(***************************************************************************)
(* Clock strings.  A clock is "M:SS" or, inside the last minute, "0:S.f";  *)
(* the regular expressions of the code look at the minute, the seconds     *)
(* text and whether a decimal part follows.                                *)
(***************************************************************************)
ClockParts(c) ==
    CASE c = "0:00"  -> [min |-> 0, sec |-> "00", frac |-> FALSE, tenths |-> 0]
      [] c = "0:01"  -> [min |-> 0, sec |-> "01", frac |-> FALSE, tenths |-> 10]
      [] c = "0:0.3" -> [min |-> 0, sec |-> "0", frac |-> TRUE, tenths |-> 3]
      [] c = "0:1.2" -> [min |-> 0, sec |-> "1", frac |-> TRUE, tenths |-> 12]
      [] c = "3:00"  -> [min |-> 3, sec |-> "00", frac |-> FALSE, tenths |-> 1800]
      [] c = "5:00"  -> [min |-> 5, sec |-> "00", frac |-> FALSE, tenths |-> 3000]
      [] OTHER       -> [min |-> 7, sec |-> "10", frac |-> FALSE, tenths |-> 4300]

\* ^0:00$ | ^0:0\.\d+$ | ^0:01$ | ^0:1\.\d+$
SeqBuzzerMask(c) ==
    LET p == ClockParts(c) IN
    \/ p.min = 0 /\ p.sec = "00" /\ ~p.frac
    \/ p.min = 0 /\ p.sec = "0" /\ p.frac
    \/ p.min = 0 /\ p.sec = "01" /\ ~p.frac
    \/ p.min = 0 /\ p.sec = "1" /\ p.frac

\* ^0:00$ | ^0:0\.\d+$
SeqWinnerMask(c) ==
    LET p == ClockParts(c) IN
    \/ p.min = 0 /\ p.sec = "00" /\ ~p.frac
    \/ p.min = 0 /\ p.sec = "0" /\ p.frac

\* ^0:0[0-1]$ | ^0:[0-1]\.\d+$
PoolTimeMask(c) ==
    LET p == ClockParts(c) IN
    \/ p.min = 0 /\ p.sec \in {"00", "01"} /\ ~p.frac
    \/ p.min = 0 /\ p.sec \in {"0", "1"} /\ p.frac

\* _time_to_seconds, in tenths of a second
TimeToTenths(c) == ClockParts(c).tenths

IsMiss(row) == "MISS" \in row.desc

get_action_filter(action) ==
    CASE action = "dunk"   -> "DUNK"
      [] action = "three"  -> "3PT"
      [] action = "block"  -> "BLOCK"
      [] action = "steal"  -> "STEAL"
      [] action = "assist" -> "AST"
      [] action = "layup"  -> "LAYUP"
      [] action = "jumper" -> "JUMP SHOT"
      [] OTHER             -> NoValue

get_detail_filter(detail) ==
    CASE detail = "step back"     -> "STEP BACK"
      [] detail = "fadeaway"      -> "FADE AWAY"
      [] detail = "pull up"       -> "PULL UP"
      [] detail = "buzzer beater" -> "BUZZER"
      [] detail = "game winner"   -> "GAME"
      [] detail = "clutch"        -> "3PT"
      [] detail = "crossover"     -> "CROSSOVER"
      [] OTHER                    -> NoValue

\* _create_result and the in-line result of the buzzer-beater branch
create_result(g, row) ==
    [gi |-> g, ei |-> row.ev, date |-> GameDate(g), period |-> row.period, clock |-> row.clock]

(***************************************************************************)
(* Deep scan: the plays one game contributes, sequential path.             *)
(***************************************************************************)
SeqStandardFilter(req, rows) ==
    LET af == IF req.action # NoValue THEN get_action_filter(req.action) ELSE NoValue
        df == IF req.detail # NoValue /\ req.detail \notin {"crossover", "buzzer beater"}
              THEN get_detail_filter(req.detail) ELSE NoValue
        conditions == {af, df} \ {NoValue}
        matched == IF conditions # {}
                   THEN SelectSeq(rows, LAMBDA r : conditions \cap r.desc # {})
                   ELSE rows
    IN  IF req.action \in ShootingActions
        THEN SelectSeq(matched, LAMBDA r : ~IsMiss(r))
        ELSE matched

SeqGameRows(req, g) ==
    LET shooter == req.action \in ShootingActions \/ req.detail \in RareDetails
        player_plays == SelectSeq(Pbp(g), LAMBDA r : r.p1 \/ (~shooter /\ r.p23))
        af == get_action_filter(req.action)
    IN  IF req.action = NoValue /\ req.detail = NoValue THEN player_plays
        ELSE IF req.detail = "buzzer beater"
             THEN SelectSeq(player_plays, LAMBDA r : SeqBuzzerMask(r.clock) /\ ~IsMiss(r))
        ELSE IF req.detail = "game winner"
             THEN LET w == SelectSeq(player_plays,
                              LAMBDA r : r.period >= 4 /\ SeqWinnerMask(r.clock) /\ ~IsMiss(r))
                  IN  IF req.action # NoValue /\ af # NoValue
                      THEN SelectSeq(w, LAMBDA r : af \in r.desc)
                      ELSE w
        ELSE IF req.detail = "crossover" /\ req.action # NoValue
             THEN IF af # NoValue THEN SelectSeq(player_plays, LAMBDA r : af \in r.desc)
                  ELSE player_plays
        ELSE SeqStandardFilter(req, player_plays)

SeqGameResults(req, g) ==
    LET rows == SeqGameRows(req, g) IN [i \in 1..Len(rows) |-> create_result(g, rows[i])]

(***************************************************************************)
(* Deep scan: the plays one game contributes, worker-pool path.            *)
(***************************************************************************)
process_game(req, g) ==
    LET player_in_game == SelectSeq(Pbp(g), LAMBDA r : r.p1 \/ r.p23)
        rows == SelectSeq(Pbp(g), LAMBDA r : r.p1 /\ PoolTimeMask(r.clock) /\ ~IsMiss(r))
    IN  IF player_in_game = <<>> THEN <<>>
        ELSE [i \in 1..Len(rows) |-> create_result(g, rows[i])]

(***************************************************************************)
(* Primary engine: what a query built from the entities asks for.          *)
(***************************************************************************)
\* _build_query_from_entities: the query is empty only without any part
QueryIsEmpty(req) ==
    req.player = NoValue /\ req.action = NoValue /\ req.detail = NoValue /\ req.season = NoValue

\* the words of the query that name the play: the detail alone for buzzer
\* beaters and game winners, else detail and mapped action
QueryWords(req) ==
    IF req.action # NoValue
    THEN IF req.detail \in RareDetails THEN {req.detail}
         ELSE {req.detail, req.action} \ {NoValue}
    ELSE {req.detail} \ {NoValue}

\* get_context_measures over those words; the default is PTS
MeasureOfWord(w) ==
    CASE w \in {"dunk", "three", "layup", "jumper", "fadeaway", "step back"} -> "PTS"
      [] w = "block"  -> "BLK"
      [] w = "steal"  -> "STL"
      [] w = "assist" -> "AST"
      [] OTHER        -> NoValue

\* the action "jumper" is sent as "jump shots": "jump" gives PTS and "shots" FGA
ContextMeasures(req) ==
    LET found == ({MeasureOfWord(w) : w \in QueryWords(req)} \ {NoValue})
                     \cup (IF "jumper" \in QueryWords(req) THEN {"FGA"} ELSE {})
        ordered == SelectSeq(<<"PTS", "FGA", "BLK", "STL", "AST">>, LAMBDA m : m \in found)
    IN  IF found = {} THEN <<"PTS">> ELSE ordered

ShotOfWord(w) ==
    CASE w = "dunk"      -> "DUNK"
      [] w = "three"     -> "3PT"
      [] w = "layup"     -> "LAYUP"
      [] w = "jumper"    -> "JUMP SHOT"
      [] w = "fadeaway"  -> "FADEAWAY"
      [] w = "step back" -> "STEP BACK"
      [] OTHER           -> NoValue

ShotSpecifiers(req) == {ShotOfWord(w) : w \in QueryWords(req)} \ {NoValue}

ScoreSpecifier(req) ==
    CASE req.detail = "buzzer beater" -> "BB"
      [] req.detail = "game winner"   -> "GW"
      [] OTHER                        -> NoValue

(***************************************************************************)
(* Primary engine: the upstream playlist and the filters of fetch_videos.  *)
(***************************************************************************)
SeasonRegularGames(w, season) ==
    CASE season = OldSeason     -> RegularGames(w)
      [] season = DefaultSeason -> RecentGames(w)
      [] OTHER                  -> <<>>

SeasonPlayoffGames(w, season) == IF season = OldSeason THEN PlayoffGames(w) ELSE <<>>

InMeasure(measure, row) ==
    CASE measure = "PTS" -> row.p1 /\ ~IsMiss(row)
      [] measure = "FGA" -> row.p1
      [] measure = "BLK" -> row.p23 /\ "BLOCK" \in row.desc
      [] OTHER           -> FALSE

VideoRow(g, row) ==
    [gi |-> g, ei |-> row.ev, date |-> GameDate(g), period |-> row.period,
     clock |-> row.clock, desc |-> row.desc]

GamePlaylist(measure, g) ==
    LET rows == SelectSeq(Pbp(g), LAMBDA r : InMeasure(measure, r))
    IN  [i \in 1..Len(rows) |-> VideoRow(g, rows[i])]

Playlist(w, measure, season) ==
    LET gs == SeasonRegularGames(w, season)
    IN  Concat([i \in 1..Len(gs) |-> GamePlaylist(measure, gs[i])])

filter_play_descriptions(rows, keywords) ==
    IF keywords = {} THEN rows
    ELSE IF "3PT" \in keywords THEN SelectSeq(rows, LAMBDA r : "3PT" \in r.desc)
    ELSE IF "JUMP SHOT" \in keywords
         THEN SelectSeq(rows, LAMBDA r :
                  /\ r.desc \cap {"JUMP SHOT", "STEP BACK", "FADEAWAY", "3PT"} # {}
                  /\ r.desc \cap {"LAYUP", "DUNK", "TIP", "HOOK"} = {})
    ELSE SelectSeq(rows, LAMBDA r : keywords \subseteq r.desc)

filter_with_score_specifiers(rows, score) ==
    IF score = "GW"
    THEN SelectSeq(rows, LAMBDA r : r.period >= 4 /\ TimeToTenths(r.clock) <= 10)
    ELSE rows

\* the opponent of the player's team in a game
OtherTeam == "BOS"
GameOpponent(g) == IF g % 2 = 0 THEN KnownTeam ELSE OtherTeam

\* team_id_dict: the id of a known team; the model uses the name as the id
team_id_dict(name) == IF name = KnownTeam \/ name = OtherTeam THEN name ELSE NoValue

\* the upstream keeps the plays of games against params["opponent_team_id"]
\* when the parameter is sent
AgainstOpponent(rows, opp) ==
    IF opp = NoValue THEN rows ELSE SelectSeq(rows, LAMBDA r : GameOpponent(r.gi) = opp)

\* the frame fetch_videos returns when the upstream call succeeds
VideosOf(w, measure, season, shots, score) ==
    LET sorted == SortByDateDesc(Playlist(w, measure, season))
        byShot == filter_play_descriptions(sorted, shots)
    IN  IF score # NoValue THEN filter_with_score_specifiers(byShot, score) ELSE byShot

\* _convert_to_search_results: one result per row, without clock
ConvertRow(r) == [gi |-> r.gi, ei |-> r.ei, date |-> r.date, period |-> r.period, clock |-> ""]

convert_to_search_results(rows) == [i \in 1..Len(rows) |-> ConvertRow(rows[i])]

(***************************************************************************)
(* Known-fact table of FastSearch.                                         *)
(***************************************************************************)
Lillard == "203081"

KnownBuzzerBeaters(player_id) ==
    IF player_id = Lillard
    THEN << [gi |-> 41800141, ei |-> 461, date |-> 20190423, period |-> 4, clock |-> "0:00"],
            [gi |-> 21300855, ei |-> 683, date |-> 20140502, period |-> 4, clock |-> "0:00"] >>
    ELSE <<>>

FastSearchClips(req) ==
    IF req.player \in {NoValue, UnknownPlayer} THEN <<>>
    ELSE IF req.detail = "buzzer beater"
         THEN Slice(KnownBuzzerBeaters(req.player), req.offset, req.offset + req.limit)
         ELSE <<>>
(***************************************************************************)
(* Entity extraction of the engine (playdex_engine.EntityExtractor).  A    *)
(* query is a sequence of lower-case words separated by single blanks.     *)
(***************************************************************************)
\* the players of the name tables, as word sequences, in table order
PlayerNames == << <<"gary", "payton">>, <<"gary", "payton", "ii">>, <<"james", "harden">> >>

NameWords == UNION {Range(PlayerNames[i]) : i \in 1..Len(PlayerNames)}

Vocabulary ==
    NameWords \cup {"tying", "go-ahead", "buzzer-beater", "game-winner",
                    "clutch", "last", "second", "minute",
                    "2015", "2027", "23", "2015-16", "all-star", "dunks"}

\* the phrase occurs in the query between word boundaries
HasPhrase(q, ph) == \E i \in 1..Len(q) : i + Len(ph) - 1 <= Len(q) /\ SubSeq(q, i, i + Len(ph) - 1) = ph

\* preprocess_query: drop the stopwords
preprocess_query(q) == SelectSeq(q, LAMBDA w : w \notin {"the", "a", "an"})

\* a word that reads as a four-digit year 20xx (0: it does not)
YearOf(w) ==
    CASE w = "2015" -> 2015
      [] w = "2027" -> 2027
      [] OTHER      -> 0

\* what (20)?(\d{2})\b reads at the start of a word (-1: nothing): the two
\* digits of a two-digit number, or the last two digits of a year 20xx
TwoDigitsOf(w) ==
    CASE w = "23"      -> 23
      [] w = "2015"    -> 15
      [] w = "2027"    -> 27
      [] w = "2015-16" -> 15
      [] OTHER         -> -1

NoSeason == [y1 |-> 0, yy |-> 0]

\* pattern1 \b(20\d{2})[-\s]?(20)?(\d{2})\b at word i: inside one word
\* ("2015-16"), or a year followed by a blank and two digits
Pattern1At(q, i) ==
    IF q[i] = "2015-16" THEN [y1 |-> 2015, yy |-> 16]
    ELSE IF YearOf(q[i]) # 0 /\ i < Len(q) /\ TwoDigitsOf(q[i + 1]) >= 0
         THEN [y1 |-> YearOf(q[i]), yy |-> TwoDigitsOf(q[i + 1])]
    ELSE NoSeason

\* _extract_season; a season "YYYY-YY" is the pair of its two numbers
extract_season(q, year_now) ==
    LET hits1 == {i \in 1..Len(q) : Pattern1At(q, i) # NoSeason}
        hits2 == {i \in 1..Len(q) : YearOf(q[i]) # 0}
    IN  IF hits1 # {}
        THEN Pattern1At(q, CHOOSE i \in hits1 : \A j \in hits1 : i <= j)
        ELSE IF hits2 # {}
        THEN LET year == YearOf(q[CHOOSE i \in hits2 : \A j \in hits2 : i <= j])
             IN  IF "all-star" \in Range(q) \/ HasPhrase(q, <<"all", "star">>)
                 THEN [y1 |-> year - 1, yy |-> year % 100]
                 ELSE IF year <= year_now
                      THEN [y1 |-> year - 1, yy |-> year % 100]
                      ELSE [y1 |-> year, yy |-> (year + 1) % 100]
        ELSE NoSeason

\* positions where a player name starts in the query
NameStarts(q, name) == {i \in 1..Len(q) : i + Len(name) - 1 <= Len(q) /\ SubSeq(q, i, i + Len(name) - 1) = name}

\* step 2 of reformulate_query: extractOne keeps the first name of the table
\* with the best score; a name the query contains verbatim scores 100
NoPlayer == <<>>

FuzzyPlayer(q) ==
    LET hits == {k \in 1..Len(PlayerNames) : NameStarts(q, PlayerNames[k]) # {}}
    IN  IF hits = {} THEN NoPlayer ELSE PlayerNames[CHOOSE k \in hits : \A j \in hits : k <= j]

\* remove_fragment: the first window of the query that equals the fragment
remove_fragment(q, fragment) ==
    LET starts == NameStarts(q, fragment)
    IN  IF starts = {} THEN q
        ELSE LET i == CHOOSE a \in starts : \A b \in starts : a <= b
             IN  SubSeq(q, 1, i - 1) \o SubSeq(q, i + Len(fragment), Len(q))

\* step 4 of reformulate_query: a word is replaced by the nearest keyword when
\* their ratio exceeds 85 ("james" and "jams": 2 * 4 / 9)
NearestKeyword(w) == IF w = "james" THEN "jams" ELSE w

reformulate_query(q) ==
    LET name == FuzzyPlayer(q)
        remaining == IF name = NoPlayer THEN q ELSE remove_fragment(q, name)
        reformulated_words == [i \in 1..Len(remaining) |-> NearestKeyword(remaining[i])]
    IN  name \o reformulated_words

\* the phrase matcher over the full names: every span that is a name, by
\* start and then by end
PlayerMatches(doc) ==
    {m \in (1..Len(doc)) \X (1..Len(doc)) :
        m[1] <= m[2] /\ \E k \in 1..Len(PlayerNames) : SubSeq(doc, m[1], m[2]) = PlayerNames[k]}

FirstMatch(ms) == CHOOSE m \in ms : \A n \in ms : m[1] < n[1] \/ (m[1] = n[1] /\ m[2] <= n[2])

FullNamesOfFirst(w) == {k \in 1..Len(PlayerNames) : PlayerNames[k][1] = w}

FullNamesOfLast(w) == {k \in 1..Len(PlayerNames) : PlayerNames[k][Len(PlayerNames[k])] = w}

IsPlayerName(ws) == \E k \in 1..Len(PlayerNames) : PlayerNames[k] = ws

\* the first-name / last-name pass of _extract_player_name at word i
NameByWord(doc, i) ==
    IF FullNamesOfFirst(doc[i]) # {} /\ i + 1 <= Len(doc) /\ IsPlayerName(<<doc[i], doc[i + 1]>>)
    THEN <<doc[i], doc[i + 1]>>
    ELSE IF Cardinality(FullNamesOfLast(doc[i])) = 1
    THEN PlayerNames[CHOOSE k \in FullNamesOfLast(doc[i]) : TRUE]
    ELSE IF FullNamesOfLast(doc[i]) # {} /\ i > 1 /\ IsPlayerName(<<doc[i - 1], doc[i]>>)
    THEN <<doc[i - 1], doc[i]>>
    ELSE NoPlayer

extract_player_name(doc) ==
    LET ms == PlayerMatches(doc)
        byWord == {i \in 1..Len(doc) : NameByWord(doc, i) # NoPlayer}
    IN  IF ms # {} THEN SubSeq(doc, FirstMatch(ms)[1], FirstMatch(ms)[2])
        ELSE IF byWord # {} THEN NameByWord(doc, CHOOSE i \in byWord : \A j \in byWord : i <= j)
        ELSE NoPlayer

\* SCORE_SPECIFIER_MAP in its iteration order
SCORE_SPECIFIER_MAP ==
    << [ph |-> <<"game-tying">>, code |-> "GT"], [ph |-> <<"game", "tying">>, code |-> "GT"],
       [ph |-> <<"tying">>, code |-> "GT"],
       [ph |-> <<"lead-taking">>, code |-> "LT"], [ph |-> <<"lead", "taking">>, code |-> "LT"],
       [ph |-> <<"go", "ahead">>, code |-> "LT"], [ph |-> <<"go-ahead">>, code |-> "LT"],
       [ph |-> <<"buzzer", "beater">>, code |-> "BB"], [ph |-> <<"buzzer-beater">>, code |-> "BB"],
       [ph |-> <<"game", "winner">>, code |-> "GW"], [ph |-> <<"game-winner">>, code |-> "GW"] >>

ScoreMatches(q) ==
    LET found == SelectSeq(SCORE_SPECIFIER_MAP, LAMBDA e : HasPhrase(q, e.ph))
    IN  [k \in 1..Len(found) |-> found[k].code]

LastFound(score_specifiers) == score_specifiers[Len(score_specifiers)]

FirstFound(score_specifiers) == score_specifiers[1]

extract_score_specifiers(q) ==
    IF ScoreMatches(q) = <<>> THEN NoValue ELSE FirstFound(ScoreMatches(q))

\* CLUTCH_TIME_MAP in its iteration order
CLUTCH_TIME_MAP ==
    << [ph |-> <<"clutch">>, window |-> "Last 5 Minutes"],
       [ph |-> <<"last", "minute">>, window |-> "Last 1 Minute"],
       [ph |-> <<"final", "minute">>, window |-> "Last 1 Minute"],
       [ph |-> <<"end", "of", "the", "game">>, window |-> "Last 5 Minutes"],
       [ph |-> <<"last", "second">>, window |-> "Last 10 Seconds"],
       [ph |-> <<"final", "seconds">>, window |-> "Last 10 Seconds"],
       [ph |-> <<"last", "10", "seconds">>, window |-> "Last 10 Seconds"] >>

priority_order == <<"Last 10 Seconds", "Last 1 Minute", "Last 5 Minutes">>

PriorityIndex(window) == CHOOSE k \in 1..Len(priority_order) : priority_order[k] = window

ClutchMatches(q) ==
    LET found == SelectSeq(CLUTCH_TIME_MAP, LAMBDA e : HasPhrase(q, e.ph))
    IN  [k \in 1..Len(found) |-> found[k].window]

FirstMatched(matches) == matches[1]

HighestPriority(matches) ==
    CHOOSE w \in Range(matches) : \A v \in Range(matches) : PriorityIndex(w) <= PriorityIndex(v)

extract_clutch_time(q) ==
    IF ClutchMatches(q) = <<>> THEN NoValue ELSE HighestPriority(ClutchMatches(q))

\* _extract_season_type: the first pattern of the table that occurs
extract_season_type(q) ==
    IF \E w \in {"playoffs", "playoff", "postseason"} : w \in Range(q) THEN "Playoffs"
    ELSE IF HasPhrase(q, <<"regular", "season">>) THEN "Regular Season"
    ELSE IF "preseason" \in Range(q) THEN "Pre Season"
    ELSE IF "all-star" \in Range(q) \/ HasPhrase(q, <<"all", "star">>) THEN "All Star"
    ELSE "Regular Season"

\* get_context_measures: the measures of the query's words (PTS when none)
\* and the canonical shot specifiers
KeywordMeasure(w) ==
    CASE w \in {"points", "dunk", "dunks", "slam", "slams", "jam", "jams"} -> "PTS"
      [] w \in {"block", "blocks"} -> "BLK"
      [] OTHER -> NoValue

context_measures(q) ==
    LET found == {KeywordMeasure(q[i]) : i \in 1..Len(q)} \ {NoValue}
    IN  IF found = {} THEN {"PTS"} ELSE found

ShotOfKeyword(w) == IF w \in {"dunk", "dunks", "slam", "slams", "jam", "jams"} THEN "Dunk" ELSE NoValue

shot_specifiers(q) == {ShotOfKeyword(q[i]) : i \in 1..Len(q)} \ {NoValue}

NoEntities ==
    [player |-> NoPlayer, team |-> NoValue, season_type |-> NoValue, measures |-> {}, month |-> NoValue,
     clutch |-> NoValue, shots |-> {}, score |-> NoValue, season |-> NoSeason]

\* extract_entities: everything but the season is read off the cleaned query
CleanedQuery(q) == reformulate_query(preprocess_query(q))

extract_entities(q, year_now) ==
    LET cleaned_query == CleanedQuery(q)
    IN  [player      |-> extract_player_name(cleaned_query),
         team        |-> NoValue,
         season_type |-> extract_season_type(cleaned_query),
         measures    |-> context_measures(cleaned_query),
         month       |-> "0",
         clutch      |-> extract_clutch_time(cleaned_query),
         shots       |-> shot_specifiers(cleaned_query),
         score       |-> extract_score_specifiers(cleaned_query),
         season      |-> extract_season(q, year_now)]

(***************************************************************************)
(* Primary engine: map_player_team_ids, the ids of the player, of the team *)
(* the player had in the requested season, and of the opponent.            *)
(***************************************************************************)
LeBron == "lebron james"
LeBronId == "2544"
LillardName == "damian lillard"
MiamiSeason == "2010-11"

Cavaliers == "1610612739"
Heat == "1610612748"
Lakers == "1610612747"
Blazers == "1610612757"
Bucks == "1610612749"

\* active_players.get(player_name.lower())
active_players(name) ==
    CASE name = LeBron      -> LeBronId
      [] name = LillardName -> Lillard
      [] OTHER              -> NoValue

\* int(requested_season.split('-')[0])
SeasonYear(s) ==
    CASE s = OldSeason      -> 2016
      [] s = MiamiSeason    -> 2010
      [] s = FallbackSeason -> 2023
      [] OTHER              -> 2024

\* the hard-coded teams of LeBron James
HardCodedTeam(s) ==
    LET season_year == SeasonYear(s)
    IN  IF 2003 <= season_year /\ season_year <= 2009 THEN Cavaliers
        ELSE IF 2010 <= season_year /\ season_year <= 2013 THEN Heat
        ELSE IF 2014 <= season_year /\ season_year <= 2017 THEN Cavaliers
        ELSE Lakers

\* the career record is not looked at (sensitivity variant of CareerTeam)
CareerTeamIgnored(career, requested_season) == NoValue

\* the team of the first row of SeasonTotalsRegularSeason whose season is the
\* requested one; a failed career call leaves the team unset
CareerTeam(career, requested_season) ==
    LET rows == IF career.ok
                THEN SelectSeq(career.rows, LAMBDA row : row.season = requested_season)
                ELSE <<>>
    IN  IF rows = <<>> THEN NoValue ELSE rows[1].team

NoIds == [player_id |-> NoValue, team_id |-> NoValue, opponent_team_id |-> NoValue]
NotCalled == [player_id |-> "not called", team_id |-> NoValue, opponent_team_id |-> NoValue]

\* map_player_team_ids(player_name, team_name) for params["season"] = in.season
map_player_team_ids(in) ==
    LET player_id == active_players(in.player)
        fromCareer == CareerTeam(in.career, in.season)
        team_id == IF fromCareer # NoValue THEN fromCareer
                   ELSE IF in.player = LeBron THEN HardCodedTeam(in.season)
                   ELSE IF in.info.ok THEN in.info.team
                   ELSE NoValue
        opponent_team_id == IF in.team = NoValue THEN NoValue ELSE team_id_dict(in.team)
    IN  IF player_id = NoValue THEN NoIds
        ELSE IF team_id = NoValue THEN NoIds
        ELSE IF in.team # NoValue /\ opponent_team_id = NoValue THEN NoIds
        ELSE [player_id |-> player_id, team_id |-> team_id, opponent_team_id |-> opponent_team_id]

(***************************************************************************)
(* Primary engine: fetch_videos on one response of the video endpoint.     *)
(* A response has a shape and a playlist; every play of a playlist carries *)
(* the same keys, described by the column groups of the response: "cl"     *)
(* (Clock), "t" (Time), "p" (Period) and "score" (hpb, hpa, vpb, vpa).     *)
(* The description always shows the shot and the clock in parentheses.     *)
(***************************************************************************)
SampleBase(i) ==
    CASE i = 1 -> [p |-> 4, cl |-> "0:00",  desc |-> {"3PT", "JUMP SHOT"},
                   hpb |-> 100, hpa |-> 103, vpb |-> 102, vpa |-> 102, date |-> 90]
      [] i = 2 -> [p |-> 4, cl |-> "0:01",  desc |-> {"LAYUP"},
                   hpb |-> 100, hpa |-> 102, vpb |-> 102, vpa |-> 102, date |-> 88]
      [] i = 3 -> [p |-> 4, cl |-> "0:1.2", desc |-> {"MISS", "JUMP SHOT"},
                   hpb |-> 90, hpa |-> 90, vpb |-> 90, vpa |-> 90, date |-> 88]
      [] i = 4 -> [p |-> 2, cl |-> "5:00",  desc |-> {"DUNK"},
                   hpb |-> 50, hpa |-> 52, vpb |-> 40, vpa |-> 40, date |-> 89]
      [] i = 5 -> [p |-> 5, cl |-> "0:0.3", desc |-> {"3PT", "JUMP SHOT"},
                   hpb |-> 110, hpa |-> 110, vpb |-> 108, vpa |-> 111, date |-> 87]
      [] OTHER -> [p |-> 4, cl |-> "3:00",  desc |-> {"LAYUP"},
                   hpb |-> 80, hpa |-> 82, vpb |-> 99, vpa |-> 99, date |-> 86]

\* the i-th play of the player the upstream holds
SamplePlay(i) ==
    LET b == SampleBase(((i - 1) % 6) + 1)
    IN  [gi |-> 50 + i, ei |-> i, date |-> b.date, p |-> b.p, cl |-> b.cl, desc |-> b.desc,
         hpb |-> b.hpb, hpa |-> b.hpa, vpb |-> b.vpb, vpa |-> b.vpa]

\* the play added points
Scored(r) == r.hpa + r.vpa > r.hpb + r.vpb

\* the plays of the category the upstream is asked for
InCategory(category, r) ==
    CASE category = "PTS" -> Scored(r)
      [] category = "FGA" -> TRUE
      [] OTHER            -> FALSE

Delivered(resp, category) ==
    SelectSeq([i \in 1..resp.n |-> SamplePlay(i)], LAMBDA r : InCategory(category, r))

\* video_urls as fetch_videos reads them: Meta.videoUrls of the dictionary,
\* the first row of the 'Meta' result set of the list, [] without one
VideoUrlCount(resp, plays) ==
    CASE resp.shape = "dict"  -> Len(plays)
      [] resp.meta = "all"    -> Len(plays)
      [] resp.meta = "one"    -> 1
      [] OTHER                -> 0

\* the plays fetch_videos makes a frame of; df['video_url'] = video_urls
\* raises unless there is one url per play, and the exception ends in an
\* empty frame
Normalised(resp, plays) ==
    IF resp.shape \notin {"dict", "list"} THEN <<>>
    ELSE IF plays = <<>> THEN <<>>
    ELSE IF VideoUrlCount(resp, plays) # Len(plays) THEN <<>>
    ELSE plays

\* process_videos: the derived columns; without the score columns they are 0
process_videos(cols, rows) ==
    [i \in 1..Len(rows) |->
        [gi |-> rows[i].gi, ei |-> rows[i].ei, date |-> rows[i].date, p |-> rows[i].p,
         cl |-> rows[i].cl, desc |-> rows[i].desc,
         hpb |-> rows[i].hpb, hpa |-> rows[i].hpa, vpb |-> rows[i].vpb, vpa |-> rows[i].vpa,
         Point_Change |-> IF "score" \in cols
                          THEN (rows[i].hpa - rows[i].hpb) + (rows[i].vpa - rows[i].vpb)
                          ELSE 0,
         Score_Diff |-> IF "score" \in cols
                        THEN (IF rows[i].hpb >= rows[i].vpb THEN rows[i].hpb - rows[i].vpb
                              ELSE rows[i].vpb - rows[i].hpb)
                        ELSE 0]]

\* \(0:[0-1](?:\.\d+)?\) on the clock shown in the description
DescriptionMask(c) ==
    LET parts == ClockParts(c) IN parts.min = 0 /\ parts.sec \in {"0", "1"}

\* filter_with_score_specifiers on a frame with the given columns
ScoreFilter(cols, rows, score) ==
    LET timed == "cl" \in cols \/ "t" \in cols
        lastSecond(r) == IF timed THEN TimeToTenths(r.cl) <= 10 ELSE DescriptionMask(r.cl)
        before(r) == r.hpb - r.vpb
        after(r) == r.hpa - r.vpa
    IN  CASE score = "BB" -> rows
          [] score = "GW" ->
                IF "p" \in cols
                THEN SelectSeq(rows, LAMBDA r : r.p >= 4 /\ lastSecond(r))
                ELSE rows
          [] score = "GT" /\ "score" \in cols ->
                SelectSeq(rows, LAMBDA r : after(r) = 0)
          [] score = "LT" /\ "score" \in cols ->
                SelectSeq(rows, LAMBDA r : \/ before(r) <= 0 /\ after(r) > 0
                                           \/ before(r) >= 0 /\ after(r) < 0)
          [] OTHER -> rows

\* fetch_videos(context_measure, shot_specifiers, score_specifiers) for a
\* season other than 2024-25, on the response the upstream gives
fetch_videos(in, context_measure) ==
    LET category == IF context_measure = "MISS" THEN "FGA" ELSE context_measure
        plays == Normalised(in.resp, Delivered(in.resp, category))
        df == process_videos(in.resp.cols, SortByDateDesc(plays))
        byShot == IF in.shots # {} THEN filter_play_descriptions(df, in.shots) ELSE df
        byScore == IF in.score # NoValue THEN ScoreFilter(in.resp.cols, byShot, in.score) ELSE byShot
        byClutch == IF in.clutch THEN SelectSeq(byScore, LAMBDA r : r.Score_Diff <= 5) ELSE byScore
    IN  IF context_measure = "MISS"
        THEN SelectSeq(byClutch, LAMBDA r : r.Point_Change = 0)
        ELSE byClutch

\* query(): PTS is dropped from the context measures when MISS is among them
QueryMeasures(asked) ==
    IF "MISS" \in Range(asked) /\ "PTS" \in Range(asked)
    THEN SelectSeq(asked, LAMBDA m : m # "PTS")
    ELSE asked

(***************************************************************************)
(* Requests.                                                               *)
(***************************************************************************)
Intents ==
    { [action |-> "dunk",  detail |-> NoValue],
      [action |-> NoValue, detail |-> "buzzer beater"],
      [action |-> "dunk",  detail |-> "game winner"],
      [action |-> "block", detail |-> "fadeaway"],
      [action |-> "jumper", detail |-> NoValue] }

\* requests that name an opponent team, an unknown player or no player
IdentityRequests ==
    { [player |-> p, team |-> t, action |-> "dunk", detail |-> NoValue, season |-> OldSeason,
       limit |-> 1, offset |-> 0] :
        p \in {Lillard, UnknownPlayer, NoValue}, t \in {NoValue, KnownTeam, UnknownTeam} }

Requests ==
    { [player |-> Lillard, team |-> NoValue, action |-> i.action, detail |-> i.detail, season |-> s,
       limit |-> l, offset |-> o] :
        i \in Intents, s \in {NoValue, OldSeason},
        l \in 1..MaxLimit, o \in 0..MaxOffset } \cup IdentityRequests

NoRequest ==
    [player |-> NoValue, team |-> NoValue, action |-> NoValue, detail |-> NoValue,
     season |-> NoValue, limit |-> 1, offset |-> 0]

NoCall == [kind |-> NoValue, attempts |-> 0, outcome |-> NoValue, open |-> FALSE]
NoPrev == [valid |-> FALSE, clean |-> FALSE, page |-> <<>>]

VARIABLES
    world,        \* the upstream data of this run
    season,       \* SearchEngine.params["season"] of the shared engine
    opponent,     \* SearchEngine.params["opponent_team_id"], NoValue while the key is absent
    req,          \* the entities, limit and offset of the request being served
    pc,           \* position of the request in search_clips
    tried,        \* strategies invoked for this request, in order
    primaryOut,   \* what PlayDexSearch.search_clips returned, once it returned
    results,      \* results of the response
    prev,         \* the page served for the same intent at offset - limit, and whether
                  \* it was served without an upstream failure
    measures,     \* context measures query() still has to fetch
    fetched,      \* measure and season of the fetches that succeeded
    videos,       \* frame accumulated by query()
    games_df,     \* game list being gathered by the deep scan
    seasonIdx,    \* index into buzzer_beater_seasons
    glAttempt,    \* attempt of the regular-season game-list retry loop
    games,        \* games to scan
    mode,         \* "seq" or "pool"
    nextIdx,      \* next game to start
    workers,      \* the play-by-play fetches in flight: game and attempt
    okGames,      \* games whose play-by-play was loaded
    timedOut,     \* games given up after the last timed-out attempt
    errored,      \* games given up after another exception
    stopped,      \* the scan stopped at the result cap
    all_results,  \* candidates accumulated by the deep scan
    page,         \* paginated_results
    linkCalls,    \* plays get_video_url was called for
    lastCall,     \* the latest upstream call: attempts made, last outcome, still retrying
    faults,       \* upstream failures injected in this request
    now,          \* datetime.now().year
    query,        \* the query handed to extract_entities
    cleaned,      \* the cleaned query of the latest extraction
    entities,     \* what the latest extract_entities call returned
    earlier,      \* what the call before it returned for the same query
    calls,        \* extract_entities calls made on the query
    calledIn,     \* the calendar year of the latest call
    lookup,       \* what map_player_team_ids is asked and what the upstream would answer
    ids,          \* what map_player_team_ids returned
    call,         \* what one engine query asks for and what the video endpoint would deliver
    todo,         \* context measures query() still has to fetch
    sent,         \* context_measure_detailed of the upstream calls made
    all_videos    \* the videos query() has concatenated

vars == << lookup, ids, call, todo, sent, all_videos, now, query, cleaned, entities, earlier, calls, calledIn, world, season, opponent, req, pc, tried, primaryOut, results, prev, measures, fetched,
           videos, games_df, seasonIdx, glAttempt, games, mode, nextIdx, workers, okGames,
           timedOut, errored, stopped, all_results, page, linkCalls, lastCall, faults >>

extractVars == << now, query, cleaned, entities, earlier, calls, calledIn >>
engineVars == << lookup, ids, call, todo, sent, all_videos >>
fetchVars == << call, todo, sent, all_videos >>
primaryVars == << measures, fetched, videos >>
listVars == << games_df, seasonIdx, glAttempt >>
scanVars == << games, mode, nextIdx, workers, okGames, timedOut, errored, stopped, all_results >>
linkVars == << page, linkCalls >>

\* the service before its first request
ServiceIdle ==
    /\ season = DefaultSeason
    /\ opponent = NoValue
    /\ req = NoRequest
    /\ pc = "idle"
    /\ tried = <<>>
    /\ primaryOut = <<>>
    /\ results = <<>>
    /\ prev = NoPrev
    /\ measures = <<>>
    /\ fetched = <<>>
    /\ videos = <<>>
    /\ games_df = <<>>
    /\ seasonIdx = 1
    /\ glAttempt = 0
    /\ games = <<>>
    /\ mode = NoValue
    /\ nextIdx = 1
    /\ workers = {}
    /\ okGames = {}
    /\ timedOut = {}
    /\ errored = {}
    /\ stopped = FALSE
    /\ all_results = <<>>
    /\ page = <<>>
    /\ linkCalls = <<>>
    /\ lastCall = NoCall
    /\ faults = 0

\* the extractor before its first call
ExtractorIdle ==
    /\ cleaned = <<>>
    /\ entities = NoEntities
    /\ earlier = NoEntities
    /\ calls = 0
    /\ calledIn = 0

NoFetchCall ==
    [asked |-> <<>>, shots |-> {}, score |-> NoValue, clutch |-> FALSE,
     resp |-> [shape |-> "other", meta |-> "none", cols |-> {}, n |-> 0]]
NotAsked == <<"not asked">>

NoLookup ==
    [player |-> NoValue, team |-> NoValue, season |-> DefaultSeason,
     career |-> [ok |-> FALSE, rows |-> <<>>], info |-> [ok |-> FALSE, team |-> NoValue]]

\* the engine-level calls before they are made
FetchIdle ==
    /\ call = NoFetchCall
    /\ todo = NotAsked
    /\ sent = <<>>
    /\ all_videos = <<>>

EngineIdle ==
    /\ lookup = NoLookup
    /\ ids = NotCalled
    /\ FetchIdle

Init ==
    /\ world \in Worlds
    /\ ServiceIdle
    /\ now = MaxNow - 1
    /\ query = <<>>
    /\ ExtractorIdle
    /\ EngineIdle

\* outcomes the upstream may give to one call
Outcomes(canFail) == IF canFail /\ faults < MaxFaults THEN {"ok", "timeout", "error"} ELSE {"ok"}

Charge(out) == faults' = IF out = "ok" THEN faults ELSE faults + 1

\* the retry loops: a timed-out attempt is repeated while attempt < 2
RetryAgain(attempt) == attempt < RetryAttempts - 1

(***************************************************************************)
(* search_clips of the endpoint: routing.                                  *)
(***************************************************************************)
UseDeepFirst(r) == r.detail \in RareDetails /\ r.offset = 0

FallbackToDeep(out, r) == out = <<>> /\ r.offset = 0

\* entry of VideoSearch.search_clips: which game-list branch is taken
DeepEntry(r) ==
    IF r.player \in {NoValue, UnknownPlayer} THEN "done"
    ELSE IF r.season # NoValue THEN "gl_regular"
    ELSE IF r.detail = "buzzer beater" THEN "gl_bbseason"
    ELSE "gl_recent"

\* a window one result too long (sensitivity variant of Paginate)
PaginateOneMore(all, offset, limit) == Slice(all, offset, offset + limit + 1)

Paginate(all, offset, limit) == Slice(all, offset, offset + limit)

\* a request is the next page of the one just served
IsNextPage(r) ==
    /\ pc = "done"
    /\ r = [req EXCEPT !.offset = req.offset + req.limit]

StartRequest(r) ==
    /\ pc \in {"idle", "done", "failed"}
    /\ req' = r
    /\ prev' = IF IsNextPage(r) THEN [valid |-> TRUE, clean |-> (faults = 0), page |-> results]
                ELSE NoPrev
    /\ IF UseDeepFirst(r)
       THEN /\ tried' = <<"deep">>
            /\ pc' = DeepEntry(r)
       ELSE /\ tried' = <<"primary">>
            /\ pc' = "primary_query"
    /\ primaryOut' = <<>>
    /\ results' = <<>>
    /\ measures' = <<>>
    /\ fetched' = <<>>
    /\ videos' = <<>>
    /\ games_df' = <<>>
    /\ seasonIdx' = 1
    /\ glAttempt' = 0
    /\ games' = <<>>
    /\ mode' = NoValue
    /\ nextIdx' = 1
    /\ workers' = {}
    /\ okGames' = {}
    /\ timedOut' = {}
    /\ errored' = {}
    /\ stopped' = FALSE
    /\ all_results' = <<>>
    /\ page' = <<>>
    /\ linkCalls' = <<>>
    /\ lastCall' = NoCall
    /\ faults' = 0
    /\ UNCHANGED << extractVars, engineVars, opponent, world, season >>

(***************************************************************************)
(* Primary engine: PlayDexSearch.search_clips over SearchEngine.query.     *)
(***************************************************************************)
\* what PlayDexSearch.search_clips hands back to the endpoint, and the
\* endpoint's fallback to the deep scan on an empty first page
PrimaryReturn(frame) ==
    LET out == Paginate(convert_to_search_results(frame), req.offset, req.limit)
    IN  /\ primaryOut' = out
        /\ IF FallbackToDeep(out, req)
           THEN /\ tried' = Append(tried, "deep")
                /\ pc' = DeepEntry(req)
                /\ results' = <<>>
           ELSE /\ tried' = tried
                /\ pc' = "done"
                /\ results' = out

\* map_player_team_ids finds an id for everything the query names (sensitivity
\* variant of Resolved)
ResolvedAnyway(r) == TRUE

\* map_player_team_ids: the player name has an id, and so has the team name if
\* there is one
Resolved(r) == r.player \notin {NoValue, UnknownPlayer} /\ r.team # UnknownTeam

\* query(): set the season, resolve the ids; the team of the player is looked
\* up upstream
PrimaryQuery ==
    /\ pc = "primary_query"
    /\ IF QueryIsEmpty(req)
       THEN /\ PrimaryReturn(<<>>)
            /\ UNCHANGED << season, opponent, measures, faults >>
       ELSE /\ season' = IF req.season # NoValue THEN req.season ELSE season
            /\ \E out \in Outcomes(req.player \notin {NoValue, UnknownPlayer}) :
                 /\ Charge(out)
                 /\ IF ~Resolved(req) \/ out # "ok"
                    THEN /\ PrimaryReturn(<<>>)
                         /\ measures' = <<>>
                         /\ opponent' = opponent
                    ELSE /\ measures' = ContextMeasures(req)
                         /\ opponent' = IF req.team # NoValue THEN team_id_dict(req.team) ELSE opponent
                         /\ pc' = "primary_fetch"
                         /\ UNCHANGED << primaryOut, tried, results >>
    /\ UNCHANGED << extractVars, engineVars, world, req, prev, fetched, videos, listVars, scanVars, linkVars, lastCall >>

\* the filters query() passes to fetch_videos for a measure
ShotsFor(m) == IF m \in {"PTS", "FGA", "MISS"} THEN ShotSpecifiers(req) ELSE {}
ScoreFor(m) == IF m \in {"PTS", "FGA", "MISS"} THEN ScoreSpecifier(req) ELSE NoValue

\* query() after the frame of one measure was concatenated
AfterMeasure(frame) ==
    /\ videos' = frame
    /\ measures' = Tail(measures)
    /\ IF Tail(measures) = <<>>
       THEN PrimaryReturn(frame)
       ELSE /\ pc' = "primary_fetch"
            /\ UNCHANGED << primaryOut, tried, results >>

\* the 2024-25 workaround of fetch_videos: plays of the REB, STL and BLK
\* endpoints whose description is a shot of the player
WorkaroundVideos(w, m, shots, score) ==
    IF m \notin {"PTS", "FGM", "FGA", "MISS"} THEN <<>>
    ELSE LET both == Playlist(w, "REB", DefaultSeason) \o Playlist(w, "STL", DefaultSeason)
                         \o Playlist(w, "BLK", DefaultSeason)
             shotsOnly == SelectSeq(SortByDateDesc(both), LAMBDA r :
                              r.desc \cap {"LAYUP", "DUNK", "JUMP SHOT", "HOOK", "FADEAWAY", "3PT"} # {})
             byShot == filter_play_descriptions(shotsOnly, shots)
         IN  IF score # NoValue THEN filter_with_score_specifiers(byShot, score) ELSE byShot

\* fetch_videos: one upstream call; "error" is the undecodable response
\* ("Expecting value"), which in season 2024-25 leads to the fallback
PrimaryFetch ==
    /\ pc = "primary_fetch"
    /\ measures # <<>>
    /\ LET m == Head(measures) IN
       \E out \in Outcomes(TRUE) :
         /\ Charge(out)
         /\ lastCall' = [kind |-> "videos", attempts |-> 1, outcome |-> out, open |-> FALSE]
         /\ CASE out = "ok" ->
                   /\ AfterMeasure(videos \o AgainstOpponent(VideosOf(world, m, season, ShotsFor(m), ScoreFor(m)), opponent))
                   /\ fetched' = Append(fetched, [m |-> m, s |-> season])
                   /\ season' = season
              [] out = "error" /\ season = DefaultSeason
                      /\ AgainstOpponent(WorkaroundVideos(world, m, ShotsFor(m), ScoreFor(m)), opponent) # <<>> ->
                   /\ AfterMeasure(videos \o AgainstOpponent(WorkaroundVideos(world, m, ShotsFor(m), ScoreFor(m)), opponent))
                   /\ UNCHANGED << fetched, season >>
              [] out = "error" /\ season = DefaultSeason
                      /\ AgainstOpponent(WorkaroundVideos(world, m, ShotsFor(m), ScoreFor(m)), opponent) = <<>> ->
                   /\ season' = FallbackSeason
                   /\ pc' = "primary_fallback"
                   /\ UNCHANGED << videos, measures, fetched, primaryOut, tried, results >>
              [] OTHER ->
                   /\ AfterMeasure(videos)
                   /\ UNCHANGED << fetched, season >>
    /\ UNCHANGED << extractVars, engineVars, opponent, world, req, prev, listVars, scanVars, linkVars >>

\* the season the finally clause of the fallback leaves behind
SeasonLeftBehind == FallbackSeason
SeasonReset == DefaultSeason

\* the nested fetch_videos for season 2023-24; the season is reset afterwards
PrimaryFallback ==
    /\ pc = "primary_fallback"
    /\ LET m == Head(measures) IN
       \E out \in Outcomes(TRUE) :
         /\ Charge(out)
         /\ lastCall' = [kind |-> "videos", attempts |-> 1, outcome |-> out, open |-> FALSE]
         /\ IF out = "ok"
            THEN /\ AfterMeasure(videos \o AgainstOpponent(VideosOf(world, m, FallbackSeason, ShotsFor(m), ScoreFor(m)), opponent))
                 /\ fetched' = Append(fetched, [m |-> m, s |-> FallbackSeason])
            ELSE /\ AfterMeasure(videos)
                 /\ fetched' = fetched
         /\ season' = SeasonReset
    /\ UNCHANGED << extractVars, engineVars, opponent, world, req, prev, listVars, scanVars, linkVars >>
(***************************************************************************)
(* Deep scan: VideoSearch.search_clips, gathering the game list.           *)
(***************************************************************************)
RECURSIVE DropDuplicates(_)
DropDuplicates(s) ==
    IF s = <<>> THEN <<>>
    ELSE LET front == DropDuplicates(SubSeq(s, 1, Len(s) - 1))
         IN  IF s[Len(s)] \in Range(front) THEN front ELSE Append(front, s[Len(s)])

\* sort_values('GAME_DATE', ascending=False) of a list of games
RECURSIVE SortGames(_)
SortGames(s) ==
    IF s = <<>> THEN <<>>
    ELSE LET newest == CHOOSE g \in Range(s) : \A h \in Range(s) : GameDate(g) >= GameDate(h)
         IN  <<newest>> \o SortGames(SelectSeq(s, LAMBDA h : h # newest))

buzzer_beater_seasons(player) ==
    IF player = Lillard THEN <<"2018-19", "2013-14", "2016-17", "2022-23">>
    ELSE <<"2023-24", "2022-23", "2021-22", "2020-21", "2019-20", "2018-19">>

\* the head(40) / head(30) limits on the games to scan
LimitGames(r, df) ==
    IF r.detail \in RareDetails THEN HeadN(df, RareGameLimit)
    ELSE IF Len(df) > CommonGameLimit /\ r.action \in CommonActions THEN HeadN(df, CommonGameLimit)
    ELSE HeadN(df, RareGameLimit)

\* the pool for every rare intent, whatever the number of games (sensitivity
\* variant of UsePool)
UsePoolAnySize(r, n) == r.detail \in RareDetails

UsePool(r, n) == r.detail \in RareDetails /\ PoolThreshold < n /\ n <= RareGameLimit

\* the deep scan returns the empty list
DeepEmpty ==
    /\ results' = <<>>
    /\ pc' = "done"
    /\ UNCHANGED << games, mode >>

\* the game list is complete: nothing to scan, or limit it and pick the path
SelectGames(df) ==
    IF df = <<>> THEN DeepEmpty
    ELSE /\ games' = LimitGames(req, df)
         /\ mode' = IF UsePool(req, Len(LimitGames(req, df))) THEN "pool" ELSE "seq"
         /\ pc' = "scan"
         /\ results' = results

\* where the exception of the regular-season game-list call is handled:
\* by the handler around the whole search, which returns the empty list
FetchRegularSeason ==
    /\ pc = "gl_regular"
    /\ \E out \in Outcomes(TRUE) :
         /\ Charge(out)
         /\ lastCall' = [kind |-> "gl_regular", attempts |-> glAttempt + 1, outcome |-> out,
                         open |-> (out = "timeout" /\ RetryAgain(glAttempt))]
         /\ CASE out = "ok" ->
                   /\ games_df' = SeasonRegularGames(world, req.season)
                   /\ pc' = "gl_playoffs"
                   /\ UNCHANGED << glAttempt, results, games, mode >>
              [] out = "timeout" /\ RetryAgain(glAttempt) ->
                   /\ glAttempt' = glAttempt + 1
                   /\ UNCHANGED << games_df, pc, results, games, mode >>
              [] OTHER ->
                   /\ DeepEmpty
                   /\ UNCHANGED << games_df, glAttempt >>
    /\ UNCHANGED << extractVars, engineVars, opponent, world, season, req, tried, primaryOut, prev, primaryVars, seasonIdx,
                    nextIdx, workers, okGames, timedOut, errored, stopped, all_results,
                    linkVars >>

\* the playoff game list: one attempt, any exception gives the empty frame
FetchPlayoffs ==
    /\ pc = "gl_playoffs"
    /\ \E out \in Outcomes(TRUE) :
         /\ Charge(out)
         /\ lastCall' = [kind |-> "gl_playoffs", attempts |-> 1, outcome |-> out, open |-> FALSE]
         /\ LET playoff_games == IF out = "ok" THEN SeasonPlayoffGames(world, req.season) ELSE <<>>
                combined == IF playoff_games = <<>> THEN games_df
                            ELSE IF games_df = <<>> THEN playoff_games
                            ELSE SortGames(DropDuplicates(games_df \o playoff_games))
            IN  /\ games_df' = combined
                /\ SelectGames(combined)
    /\ UNCHANGED << extractVars, engineVars, opponent, world, season, req, tried, primaryOut, prev, primaryVars, seasonIdx,
                    glAttempt, nextIdx, workers, okGames, timedOut, errored, stopped,
                    all_results, linkVars >>

\* one season of the buzzer-beater season loop: the playoff call, then the
\* regular-season call; an exception of either ends the iteration
FetchBBSeason ==
    /\ pc = "gl_bbseason"
    /\ LET seasons == HeadN(buzzer_beater_seasons(req.player), BBSeasonCount)
           s == seasons[seasonIdx]
       IN  \E outPo \in Outcomes(TRUE), outReg \in {"ok", "timeout", "error"} :
             /\ outPo # "ok" => outReg = "ok"
             /\ outReg # "ok" => faults < MaxFaults
             /\ faults' = IF outPo = "ok" /\ outReg = "ok" THEN faults ELSE faults + 1
             /\ lastCall' = IF outPo = "ok"
                            THEN [kind |-> "gl_regular_bb", attempts |-> 1, outcome |-> outReg, open |-> FALSE]
                            ELSE [kind |-> "gl_playoffs_bb", attempts |-> 1, outcome |-> outPo, open |-> FALSE]
             /\ LET withPo == IF outPo = "ok" THEN games_df \o SeasonPlayoffGames(world, s)
                              ELSE games_df
                    withReg == IF outPo = "ok" /\ outReg = "ok"
                               THEN withPo \o HeadN(SeasonRegularGames(world, s), BBRegularHead)
                               ELSE withPo
                IN  IF seasonIdx < Len(seasons)
                    THEN /\ games_df' = withReg
                         /\ seasonIdx' = seasonIdx + 1
                         /\ UNCHANGED << pc, results, games, mode >>
                    ELSE /\ games_df' = SortGames(DropDuplicates(withReg))
                         /\ seasonIdx' = seasonIdx
                         /\ SelectGames(SortGames(DropDuplicates(withReg)))
    /\ UNCHANGED << extractVars, engineVars, opponent, world, season, req, tried, primaryOut, prev, primaryVars, glAttempt,
                    nextIdx, workers, okGames, timedOut, errored, stopped, all_results,
                    linkVars >>

\* the games of the last 30 days, else those of season 2024-25; an exception
\* of either call ends the search with the empty list
FetchRecent ==
    /\ pc = "gl_recent"
    /\ \E out \in Outcomes(TRUE) :
         /\ Charge(out)
         /\ lastCall' = [kind |-> "gl_recent", attempts |-> 1, outcome |-> out, open |-> FALSE]
         /\ IF out = "ok"
            THEN LET recent == RecentGames(world)
                     df == IF recent = <<>> THEN SeasonRegularGames(world, DefaultSeason) ELSE recent
                 IN  \E out2 \in {"ok", "error"} :
                       /\ out2 = "error" => recent = <<>>
                       /\ IF out2 = "ok"
                          THEN /\ games_df' = df
                               /\ SelectGames(df)
                          ELSE /\ DeepEmpty
                               /\ games_df' = games_df
            ELSE /\ DeepEmpty
                 /\ games_df' = games_df
    /\ UNCHANGED << extractVars, engineVars, opponent, world, season, req, tried, primaryOut, prev, primaryVars, seasonIdx,
                    glAttempt, nextIdx, workers, okGames, timedOut, errored, stopped,
                    all_results, linkVars >>
(***************************************************************************)
(* Deep scan: scanning the games.                                          *)
(***************************************************************************)
\* where the exception of a play-by-play fetch is handled: "game" is the
\* handler around one game, which goes on with the next game; "search" is the
\* handler around the whole deep scan, which returns the empty list; anything
\* else would reach the endpoint
\* sensitivity variants: the failure of one game handled around the whole scan
SeqFailureScopeSearch == "search"

SeqFailureScope == "game"

PoolFailureScopeSearch == "search"

PoolFailureScope == "game"

\* no cap on the accumulated candidates (sensitivity variant of CapReached)
CapNever == FALSE

CapReached == req.action \in CommonActions /\ Len(all_results) >= ResultCap

\* an extension that replaces what was accumulated (sensitivity variant of
\* extend)
extend_lost(all, game_results) == game_results

\* all_results.extend(game_results), by the thread that collects the games
extend(all, game_results) == all \o game_results

\* the exception left the scan
ScanAborted(scope) ==
    /\ pc' = IF scope = "search" THEN "done" ELSE "failed"
    /\ results' = <<>>
    /\ workers' = {}

\* a play-by-play fetch answers; keep(g) are the results of the game on
\* success, scope tells where a failure is handled
FetchAnswers(f, canFail, gameResults, scope) ==
    \E out \in Outcomes(canFail) :
      /\ Charge(out)
      /\ lastCall' = [kind |-> "pbp", attempts |-> f.attempt + 1, outcome |-> out,
                      open |-> (out = "timeout" /\ RetryAgain(f.attempt))]
      /\ CASE out = "ok" ->
                /\ all_results' = extend(all_results, gameResults)
                /\ okGames' = okGames \cup {f.g}
                /\ workers' = workers \ {f}
                /\ UNCHANGED << timedOut, errored, pc, results >>
           [] out = "timeout" /\ RetryAgain(f.attempt) ->
                /\ workers' = (workers \ {f}) \cup {[f EXCEPT !.attempt = f.attempt + 1]}
                /\ UNCHANGED << all_results, okGames, timedOut, errored, pc, results >>
           [] OTHER ->
                /\ timedOut' = IF out = "timeout" THEN timedOut \cup {f.g} ELSE timedOut
                /\ errored' = IF out = "error" THEN errored \cup {f.g} ELSE errored
                /\ IF scope = "game"
                   THEN /\ workers' = workers \ {f}
                        /\ UNCHANGED << pc, results >>
                   ELSE ScanAborted(scope)
                /\ UNCHANGED << all_results, okGames >>

GameIndex(g) == CHOOSE i \in 1..Len(games) : games[i] = g

\* sequential path: the main thread starts the fetch of the next game
SeqIssue ==
    /\ pc = "scan"
    /\ mode = "seq"
    /\ workers = {}
    /\ nextIdx <= Len(games)
    /\ ~CapReached
    /\ workers' = {[g |-> games[nextIdx], attempt |-> 0]}
    /\ nextIdx' = nextIdx + 1
    /\ UNCHANGED << extractVars, engineVars, opponent, world, season, req, pc, tried, primaryOut, results, prev, primaryVars,
                    listVars, games, mode, okGames, timedOut, errored, stopped, all_results,
                    linkVars, lastCall, faults >>

\* sequential path: the fetch answers; on success the game is filtered and
\* its plays are appended
SeqReturn ==
    /\ pc = "scan"
    /\ mode = "seq"
    /\ \E f \in workers :
         FetchAnswers(f, GameIndex(f.g) <= MaxFaultyGame, SeqGameResults(req, f.g), SeqFailureScope)
    /\ UNCHANGED << extractVars, engineVars, opponent, world, season, req, tried, primaryOut, prev, primaryVars, listVars,
                    games, mode, nextIdx, stopped, linkVars >>

\* worker-pool path: an idle worker takes the next submitted game
PoolIssue ==
    /\ pc = "scan"
    /\ mode = "pool"
    /\ Cardinality(workers) < PoolWorkers
    /\ nextIdx <= Len(games)
    /\ workers' = workers \cup {[g |-> games[nextIdx], attempt |-> 0]}
    /\ nextIdx' = nextIdx + 1
    /\ UNCHANGED << extractVars, engineVars, opponent, world, season, req, pc, tried, primaryOut, results, prev, primaryVars,
                    listVars, games, mode, okGames, timedOut, errored, stopped, all_results,
                    linkVars, lastCall, faults >>

\* worker-pool path: the fetch of a worker answers; process_game returns its
\* local results and the main thread extends all_results with them
PoolReturn ==
    /\ pc = "scan"
    /\ mode = "pool"
    /\ \E f \in workers :
         FetchAnswers(f, GameIndex(f.g) <= MaxFaultyGame, process_game(req, f.g), PoolFailureScope)
    /\ UNCHANGED << extractVars, engineVars, opponent, world, season, req, tried, primaryOut, prev, primaryVars, listVars,
                    games, mode, nextIdx, stopped, linkVars >>

\* all games were handled (or the cap stopped the sequential scan): sort by
\* date, most recent first, and cut the page
ScanFinish ==
    /\ pc = "scan"
    /\ workers = {}
    /\ nextIdx > Len(games) \/ (mode = "seq" /\ CapReached)
    /\ stopped' = (nextIdx <= Len(games))
    /\ all_results' = SortByDateDesc(all_results)
    /\ page' = Paginate(SortByDateDesc(all_results), req.offset, req.limit)
    /\ pc' = "links"
    /\ UNCHANGED << extractVars, engineVars, opponent, world, season, req, tried, primaryOut, results, prev, primaryVars,
                    listVars, games, mode, nextIdx, workers, okGames, timedOut, errored,
                    linkCalls, lastCall, faults >>

\* the results the video-link loop walks over: paginated_results
\* sensitivity variant: links resolved for every candidate
LinkQueueAll == all_results

LinkQueue == page

\* get_video_url for the next result of the page; a failure leaves the
\* result without a direct video link
FetchLink ==
    /\ pc = "links"
    /\ Len(linkCalls) < Len(LinkQueue)
    /\ \E out \in Outcomes(TRUE) :
         /\ Charge(out)
         /\ lastCall' = [kind |-> "link", attempts |-> 1, outcome |-> out, open |-> FALSE]
         /\ linkCalls' = Append(linkCalls, LinkQueue[Len(linkCalls) + 1])
    /\ UNCHANGED << extractVars, engineVars, opponent, world, season, req, pc, tried, primaryOut, results, prev, primaryVars,
                    listVars, scanVars, page >>

\* the deep scan returns the page to the endpoint
DeepReturn ==
    /\ pc = "links"
    /\ Len(linkCalls) = Len(LinkQueue)
    /\ results' = page
    /\ pc' = "done"
    /\ UNCHANGED << extractVars, engineVars, opponent, world, season, req, tried, primaryOut, prev, primaryVars, listVars,
                    scanVars, linkVars, lastCall, faults >>

Next ==
    \/ \E r \in Requests : StartRequest(r)
    \/ PrimaryQuery
    \/ PrimaryFetch
    \/ PrimaryFallback
    \/ FetchRegularSeason
    \/ FetchPlayoffs
    \/ FetchBBSeason
    \/ FetchRecent
    \/ SeqIssue
    \/ SeqReturn
    \/ PoolIssue
    \/ PoolReturn
    \/ ScanFinish
    \/ FetchLink
    \/ DeepReturn

Spec == Init /\ [][Next]_vars

TypeOK ==
    /\ pc \in {"idle", "primary_query", "primary_fetch", "primary_fallback", "gl_regular",
               "gl_playoffs", "gl_bbseason", "gl_recent", "scan", "links", "done", "failed"}
    /\ faults \in 0..MaxFaults
    /\ season \in {DefaultSeason, FallbackSeason, OldSeason}
    /\ opponent \in {NoValue, KnownTeam}

(***************************************************************************)
(* The entity extractor on its own: one query, extracted twice, while the  *)
(* calendar moves on.                                                      *)
(***************************************************************************)
\* a full name of the table covers the word at position i
InFullName(q, i) ==
    \E k \in 1..Len(PlayerNames) : \E a \in NameStarts(q, PlayerNames[k]) :
        a <= i /\ i <= a + Len(PlayerNames[k]) - 1

\* queries whose name words come with a full name of the table: for these
\* the best partial ratio is 100 and is reached by the names the query holds
WellFormed(q) ==
    (\E i \in 1..Len(q) : q[i] \in NameWords) => (\E i \in 1..Len(q) : InFullName(q, i))

Queries == {q \in UNION {[1..n -> Vocabulary] : n \in 1..MaxQueryLen} : WellFormed(q)}

mainVars == << world, season, opponent, req, pc, tried, primaryOut, results, prev, measures, fetched,
               videos, games_df, seasonIdx, glAttempt, games, mode, nextIdx, workers, okGames,
               timedOut, errored, stopped, all_results, page, linkCalls, lastCall, faults >>

ExtractInit ==
    /\ world = [nReg |-> 0, nPo |-> 0, nRecent |-> 0, nBig |-> 0]
    /\ ServiceIdle
    /\ now = MaxNow - 1
    /\ query \in Queries
    /\ ExtractorIdle
    /\ EngineIdle

\* the first extract_entities call on the query
Extract ==
    /\ calls = 0
    /\ cleaned' = CleanedQuery(query)
    /\ entities' = extract_entities(query, now)
    /\ calls' = 1
    /\ calledIn' = now
    /\ UNCHANGED << mainVars, engineVars, now, query, earlier >>

\* a later extract_entities call on the same query
ExtractAgain ==
    /\ calls = 1
    /\ earlier' = entities
    /\ cleaned' = CleanedQuery(query)
    /\ entities' = extract_entities(query, now)
    /\ calls' = 2
    /\ calledIn' = now
    /\ UNCHANGED << mainVars, engineVars, now, query >>

\* the calendar year changes between two calls
NewYear ==
    /\ now < MaxNow
    /\ now' = now + 1
    /\ UNCHANGED << mainVars, engineVars, query, cleaned, entities, earlier, calls, calledIn >>

ExtractNext == Extract \/ ExtractAgain \/ NewYear

ExtractSpec == ExtractInit /\ [][ExtractNext]_vars

(***************************************************************************)
(* map_player_team_ids on its own: one resolution against what the         *)
(* upstream holds about the player.                                        *)
(***************************************************************************)
CareerRows == [season : {OldSeason, DefaultSeason}, team : {Blazers, Cavaliers}]

\* the career call fails, or answers with the rows of the regular seasons
CareerReplies ==
    {[ok |-> FALSE, rows |-> <<>>]} \cup
    {[ok |-> TRUE, rows |-> r] : r \in UNION {[1..n -> CareerRows] : n \in 0..MaxCareerRows}}

\* the player-info call fails, or answers with the current team
InfoReplies == {[ok |-> FALSE, team |-> NoValue], [ok |-> TRUE, team |-> Bucks]}

Lookups ==
    [player : {LeBron, LillardName, UnknownPlayer},
     team   : {NoValue, KnownTeam, UnknownTeam},
     season : {OldSeason, MiamiSeason, DefaultSeason},
     career : CareerReplies,
     info   : InfoReplies]

ResolveInit ==
    /\ world = [nReg |-> 0, nPo |-> 0, nRecent |-> 0, nBig |-> 0]
    /\ ServiceIdle
    /\ now = MaxNow - 1
    /\ query = <<>>
    /\ ExtractorIdle
    /\ lookup \in Lookups
    /\ ids = NotCalled
    /\ FetchIdle

Resolve ==
    /\ ids = NotCalled
    /\ ids' = map_player_team_ids(lookup)
    /\ UNCHANGED << mainVars, extractVars, lookup, fetchVars >>

ResolveNext == Resolve

ResolveSpec == ResolveInit /\ [][ResolveNext]_vars

(***************************************************************************)
(* SearchEngine.query on its own, after the ids were resolved: the context *)
(* measures are fetched one by one from an upstream that answers every     *)
(* call with the same playlist in the same shape.                          *)
(***************************************************************************)
ColumnGroups == {"cl", "t", "p", "score"}

Responses ==
    {[shape |-> "dict", meta |-> "all", cols |-> c, n |-> n] :
        c \in SUBSET ColumnGroups, n \in 0..MaxPlays} \cup
    {[shape |-> "list", meta |-> m, cols |-> c, n |-> n] :
        m \in {"none", "one", "all"}, c \in SUBSET ColumnGroups, n \in 0..MaxPlays} \cup
    {[shape |-> "other", meta |-> "none", cols |-> {}, n |-> 0]}

FetchCalls ==
    [asked  : {<<"PTS">>, <<"FGA">>, <<"MISS">>, <<"MISS", "PTS">>, <<"PTS", "FGA">>},
     shots  : {{}, {"3PT"}},
     score  : {NoValue, "GT", "LT", "GW", "BB"},
     clutch : BOOLEAN,
     resp   : Responses]

FetchInit ==
    /\ world = [nReg |-> 0, nPo |-> 0, nRecent |-> 0, nBig |-> 0]
    /\ ServiceIdle
    /\ now = MaxNow - 1
    /\ query = <<>>
    /\ ExtractorIdle
    /\ lookup = NoLookup
    /\ ids = NotCalled
    /\ call \in FetchCalls
    /\ todo = NotAsked
    /\ sent = <<>>
    /\ all_videos = <<>>

\* query() up to the loop over the context measures
EngineQuery ==
    /\ todo = NotAsked
    /\ todo' = QueryMeasures(call.asked)
    /\ UNCHANGED << mainVars, extractVars, lookup, ids, call, sent, all_videos >>

\* one round of the loop: fetch_videos for the next measure, pd.concat
EngineFetch ==
    /\ todo # NotAsked
    /\ todo # <<>>
    /\ sent' = Append(sent, IF Head(todo) = "MISS" THEN "FGA" ELSE Head(todo))
    /\ all_videos' = all_videos \o fetch_videos(call, Head(todo))
    /\ todo' = Tail(todo)
    /\ UNCHANGED << mainVars, extractVars, lookup, ids, call >>

FetchNext == EngineQuery \/ EngineFetch

FetchSpec == FetchInit /\ [][FetchNext]_vars

(***************************************************************************)
(* Properties.                                                             *)
(***************************************************************************)
AnsweredByDeep == pc = "done" /\ mode # NoValue
ScanDone == pc = "links" \/ AnsweredByDeep

\* the plays the deep scan finds in one game on the path it took
GameResults(g) == IF mode = "pool" THEN process_game(req, g) ELSE SeqGameResults(req, g)

\* the plays of the games whose play-by-play was loaded, most recent first
LoadedResults ==
    SortByDateDesc(Concat([i \in 1..Len(games) |->
        IF games[i] \in okGames THEN GameResults(games[i]) ELSE <<>>]))

NoSharedPlay(a, b) == \A i \in 1..Len(a) : \A j \in 1..Len(b) : ~SamePlay(a[i], b[j])

\* C1: at offset 0 and for an intent other than buzzer beater / game winner,
\* when the primary engine returned nothing and the deep scan found N > 0
\* candidates, the response holds exactly min(N, limit) results.
C1_FallbackPageSize ==
    ( /\ pc = "done"
      /\ req.offset = 0
      /\ req.detail \notin RareDetails
      /\ tried = <<"primary", "deep">>
      /\ primaryOut = <<>>
      /\ Len(all_results) > 0 )
    => Len(results) = Min(Len(all_results), req.limit)

C1_Witness ==
    /\ pc = "done"
    /\ req.offset = 0
    /\ req.detail \notin RareDetails
    /\ tried = <<"primary", "deep">>
    /\ primaryOut = <<>>
    /\ Len(all_results) > req.limit
    /\ Len(results) = req.limit

\* C2: with unchanged upstream data and no upstream failure, the page served
\* at offset k + limit shares no play (game id, event index) with the page
\* served for the same intent and limit at offset k.
C2_NoDuplicateAcrossPages ==
    (pc = "done" /\ prev.valid /\ prev.clean /\ faults = 0) => NoSharedPlay(prev.page, results)

\* C3: the results of a response are in non-increasing date order, whichever
\* strategy or stat category produced them.
C3_ResultsDateDescending ==
    pc = "done" => IsDateDesc(results)

\* C4: for a buzzer-beater or game-winner intent the deep scan is tried
\* before the primary engine, whatever the offset; for every other intent the
\* primary engine is tried first and the deep scan only after it returned
\* nothing.
C4_StrategyOrder ==
    /\ (req.detail \in RareDetails /\ tried # <<>>) => tried[1] = "deep"
    /\ (req.detail \notin RareDetails /\ tried # <<>>) =>
          /\ tried[1] = "primary"
          /\ Len(tried) > 1 => (tried = <<"primary", "deep">> /\ primaryOut = <<>>)

\* the primary engine has no play for the request, whatever season it uses
NoPrimaryData ==
    \A m \in Range(ContextMeasures(req)) : \A s \in {DefaultSeason, FallbackSeason, OldSeason} :
        VideosOf(world, m, s, ShotsFor(m), ScoreFor(m)) = <<>>

\* C5: when neither the primary engine nor the deep scan has a result and
\* the known-fact table has one, the response is answered from the table.
C5_KnownFactFallback ==
    ( /\ pc = "done"
      /\ NoPrimaryData
      /\ faults = 0
      /\ "deep" \in Range(tried)
      /\ all_results = <<>>
      /\ FastSearchClips(req) # <<>> )
    => results = FastSearchClips(req)

\* C6: a game whose play-by-play fetch timed out on all 3 attempts adds no
\* result, every other game is still scanned, and the response is the page of
\* the plays found in the games that loaded; sequential and worker-pool path.
C6_TimedOutGameSkipped ==
    /\ (lastCall.kind = "pbp" /\ lastCall.outcome = "timeout" /\ ~lastCall.open)
          => lastCall.attempts = 3
    /\ ScanDone =>
          /\ \A g \in timedOut : \A i \in 1..Len(all_results) : all_results[i].gi # g
          /\ \A g \in Range(games) : g \in okGames \cup timedOut \cup errored \/ stopped
          /\ all_results = LoadedResults
          /\ pc = "done" => results = Slice(LoadedResults, req.offset, req.offset + req.limit)

C6_Witness ==
    /\ AnsweredByDeep
    /\ mode = "pool"
    /\ timedOut # {}
    /\ Cardinality(okGames) = Len(games) - 1
    /\ results # <<>>

C6_WitnessSeq ==
    /\ AnsweredByDeep
    /\ mode = "seq"
    /\ timedOut # {}
    /\ Cardinality(okGames) = Len(games) - 1
    /\ results # <<>>

\* C7: an upstream call (game list, play-by-play, primary-engine video
\* query) is attempted at most 3 times and is given up after a timeout only
\* once 3 attempts were made.
C7_RetryUpToThree ==
    (lastCall.kind \notin {NoValue, "link"}) =>
        /\ lastCall.attempts <= 3
        /\ (lastCall.outcome = "timeout" /\ ~lastCall.open) => lastCall.attempts = 3

\* C8: the worker pool is used exactly for a buzzer-beater / game-winner
\* intent with more than 10 games to scan, and then at most 2 play-by-play
\* fetches are in flight; otherwise at most one fetch is in flight.
C8_PoolUseAndBound ==
    /\ mode # NoValue => (mode = "pool" <=> (req.detail \in RareDetails /\ Len(games) > 10))
    /\ mode = "pool" => Cardinality(workers) <= 2
    /\ mode # "pool" => Cardinality(workers) <= 1

C8_Witness ==
    /\ mode = "pool"
    /\ Cardinality(workers) = 2
    /\ Len(games) = 11

\* C9: get_video_url is called only after every game was scanned, the
\* results were sorted and the window was cut, only for the results of the
\* window, hence at most limit times per request.
C9_LinksAfterWindow ==
    /\ Len(linkCalls) <= req.limit
    /\ linkCalls # <<>> =>
          /\ pc \in {"links", "done"}
          /\ workers = {}
          /\ stopped \/ nextIdx > Len(games)
          /\ IsDateDesc(all_results)
          /\ page = Slice(all_results, req.offset, req.offset + req.limit)
          /\ \A i \in 1..Len(linkCalls) : i <= Len(page) /\ linkCalls[i] = page[i]

C9_Witness ==
    /\ pc = "done"
    /\ Len(linkCalls) = req.limit
    /\ Len(all_results) > req.limit

\* the frame query() gathers from the fetches that succeeded
FetchedVideos ==
    Concat([i \in 1..Len(fetched) |->
        AgainstOpponent(VideosOf(world, fetched[i].m, fetched[i].s, ShotsFor(fetched[i].m),
                                 ScoreFor(fetched[i].m)), opponent)])

C10_WitnessPrimary ==
    /\ pc = "done"
    /\ "deep" \notin Range(tried)
    /\ faults > 0
    /\ Len(fetched) = 1
    /\ Len(ContextMeasures(req)) = 2
    /\ results # <<>>

\* the request names no player, a player without an id, or a team without one
IdentityMissing == req.player \in {NoValue, UnknownPlayer} \/ req.team = UnknownTeam

\* C11: when the player name is absent or has no known id, or the team name
\* has no known id, query() returns the empty frame and fetch_videos is never
\* called for that query.
C11_UnresolvedIdentityNoFetch ==
    (IdentityMissing /\ "primary" \in Range(tried)) =>
        /\ pc \notin {"primary_fetch", "primary_fallback"}
        /\ lastCall.kind # "videos"
        /\ fetched = <<>>
        /\ videos = <<>>
        /\ primaryOut = <<>>

C11_Witness ==
    /\ req.player = Lillard
    /\ req.team = UnknownTeam
    /\ tried = <<"primary", "deep">>
    /\ primaryOut = <<>>
    /\ faults = 0
    /\ pc = "gl_regular"

\* the last-second clocks: "0:00", "0:01" and the sub-second "0:0.f"
LastSecondClock(c) == c \in {"0:00", "0:01", "0:0.3"}

Found(g, row) == \E k \in 1..Len(all_results) : all_results[k].gi = g /\ all_results[k].ei = row.ev

\* C12: a made play of the requested player at a last-second clock is a
\* buzzer beater in any period and a game winner exactly when its period is
\* at least 4, in the sequential scan, the worker pool and the primary engine.
C12_LastSecondClassification ==
    /\ ScanDone =>
         \A g \in okGames : \A i \in 1..Len(Pbp(g)) :
            LET row == Pbp(g)[i] IN
            (row.p1 /\ ~IsMiss(row) /\ LastSecondClock(row.clock)) =>
                /\ req.detail = "buzzer beater" => Found(g, row)
                /\ req.detail = "game winner" => (Found(g, row) => row.period >= 4)
                /\ (req.detail = "game winner" /\ req.action = NoValue /\ row.period >= 4)
                       => Found(g, row)
    /\ (pc = "done" /\ req.detail = "game winner") =>
         \A i \in 1..Len(results) : results[i].period >= 4

\* C14: a query without a season is searched with the season the engine
\* was constructed with, whatever the earlier queries were.
C14_DefaultSeasonWithoutSeason ==
    req.season = NoValue =>
        /\ pc = "primary_fetch" => season = DefaultSeason
        /\ \A i \in 1..Len(fetched) : fetched[i].s \in {DefaultSeason, FallbackSeason}

NoDuplicatePlay(s) == \A i \in 1..Len(s) : \A j \in 1..Len(s) : i # j => ~SamePlay(s[i], s[j])

\* C20: the results of a response never hold the same play (game id and
\* event index) twice.
C20_ResultsDeduplicated ==
    pc = "done" => NoDuplicatePlay(results)

\* the words of the query that read as a four-digit year
YearWords(q) == {i \in 1..Len(q) : YearOf(q[i]) # 0}

SingleYear(q) == Cardinality(YearWords(q)) = 1 /\ "2015-16" \notin Range(q)

TheYear(q) == YearOf(q[CHOOSE i \in YearWords(q) : TRUE])

MentionsAllStar(q) == "all-star" \in Range(q) \/ HasPhrase(q, <<"all", "star">>)

SeasonEndingIn(y) == [y1 |-> y - 1, yy |-> y % 100]

SeasonStartingIn(y) == [y1 |-> y, yy |-> (y + 1) % 100]

\* C13: a query with a single four-digit year Y and no season range gets the
\* season ending in Y when it mentions all-star or Y is not after the year of
\* the call, the season starting in Y otherwise, whatever else it contains;
\* a query without a year gets no season.
C13_SeasonOfSingleYear ==
    calls > 0 =>
        /\ SingleYear(query) =>
               entities.season =
                   IF MentionsAllStar(query) \/ TheYear(query) <= calledIn
                   THEN SeasonEndingIn(TheYear(query))
                   ELSE SeasonStartingIn(TheYear(query))
        /\ (YearWords(query) = {} /\ "2015-16" \notin Range(query)) => entities.season = NoSeason

\* C15: whenever the extracted score specifier is BB, the extracted clutch
\* window is "Last 10 Seconds".
C15_BuzzerBeaterIsClutch ==
    (calls > 0 /\ entities.score = "BB") => entities.clutch = "Last 10 Seconds"

\* the windows whose phrases the query holds
WindowsMatched(q) ==
    {CLUTCH_TIME_MAP[k].window : k \in {j \in 1..Len(CLUTCH_TIME_MAP) : HasPhrase(q, CLUTCH_TIME_MAP[j].ph)}}

\* C16: the clutch window extracted from a query is a single one: the
\* narrowest of the windows whose phrases the query holds, in the order Last
\* 10 Seconds, Last 1 Minute, Last 5 Minutes, and none when no phrase occurs.
C16_NarrowestClutchWindow ==
    calls > 0 =>
        entities.clutch =
            IF "Last 10 Seconds" \in WindowsMatched(cleaned) THEN "Last 10 Seconds"
            ELSE IF "Last 1 Minute" \in WindowsMatched(cleaned) THEN "Last 1 Minute"
            ELSE IF "Last 5 Minutes" \in WindowsMatched(cleaned) THEN "Last 5 Minutes"
            ELSE NoValue

C16_Witness ==
    /\ calls > 0
    /\ cleaned = <<"clutch", "last", "second">>
    /\ entities.clutch = "Last 10 Seconds"

C16_WitnessNone ==
    /\ calls > 0
    /\ cleaned = <<"last", "dunks", "second">>
    /\ entities.clutch = NoValue

\* the codes whose phrases the query holds
CodesMatched(q) ==
    {SCORE_SPECIFIER_MAP[k].code : k \in {j \in 1..Len(SCORE_SPECIFIER_MAP) : HasPhrase(q, SCORE_SPECIFIER_MAP[j].ph)}}

\* C17: the score specifier extracted from a query is a single code: the
\* first of GT, LT, BB, GW that has a phrase in the query, wherever the
\* phrases stand, and none when no phrase occurs.
C17_FirstScoreSpecifierInMapOrder ==
    calls > 0 =>
        entities.score =
            IF "GT" \in CodesMatched(cleaned) THEN "GT"
            ELSE IF "LT" \in CodesMatched(cleaned) THEN "LT"
            ELSE IF "BB" \in CodesMatched(cleaned) THEN "BB"
            ELSE IF "GW" \in CodesMatched(cleaned) THEN "GW"
            ELSE NoValue

C17_Witness ==
    /\ calls > 0
    /\ cleaned = <<"game-winner", "buzzer-beater", "tying">>
    /\ entities.score = "GT"

\* the names of the table the query holds verbatim
NamesHeld(q) == {k \in 1..Len(PlayerNames) : NameStarts(q, PlayerNames[k]) # {}}

\* C18: a query that holds a player's full name verbatim resolves to that
\* player, also when the other names it holds are parts of that name.
C18_FullNameResolvesPlayer ==
    calls > 0 =>
        \A k \in NamesHeld(query) :
            (\A j \in NamesHeld(query) : HasPhrase(PlayerNames[k], PlayerNames[j]))
                => entities.player = PlayerNames[k]

\* C19: two extractions of the same query return the same entities.
C19_ExtractionRepeatable == calls = 2 => entities = earlier

\* C21: in the sequential scan for a common action no play-by-play fetch is
\* under way once a hundred candidates are accumulated; for another intent
\* the sequential scan ends only when every game was started.
C21_CapStopsCommonScan ==
    /\ (mode = "seq" /\ req.action \in CommonActions /\ workers # {})
           => Len(all_results) < ResultCap
    /\ (mode = "seq" /\ req.action \notin CommonActions /\ pc \in {"links", "done"})
           => nextIdx > Len(games)

C21_Witness ==
    /\ mode = "seq"
    /\ req.action \in CommonActions
    /\ pc = "links"
    /\ Len(all_results) >= ResultCap
    /\ nextIdx <= Len(games)
    /\ okGames \cap {JumperGame, LastGame} = {}

C21_WitnessOther ==
    /\ mode = "seq"
    /\ req.action \notin CommonActions
    /\ pc = "links"
    /\ Len(all_results) >= ResultCap
    /\ LastGame \in okGames

\* the candidates accumulated for a game, in their order
AccumulatedOf(g) == SelectSeq(all_results, LAMBDA r : r.gi = g)

\* C26: in the worker-pool scan, in whatever order the workers complete, the
\* accumulated list holds the results of every loaded game exactly once and
\* nothing of a game that failed; a failed game loses its own results only.
C26_PoolMergeExactlyOnce ==
    (mode = "pool" /\ pc \in {"scan", "links"}) =>
        \A i \in 1..Len(games) :
            AccumulatedOf(games[i]) =
                IF games[i] \in okGames THEN process_game(req, games[i]) ELSE <<>>

C26_Witness ==
    /\ mode = "pool"
    /\ pc = "links"
    /\ errored # {}
    /\ Cardinality({all_results[k].gi : k \in 1..Len(all_results)}) >= 2

C26_WitnessOutOfOrder ==
    /\ mode = "pool"
    /\ pc = "scan"
    /\ \E i, j \in 1..Len(all_results) : i < j /\ all_results[i].date < all_results[j].date

\* C28: for a buzzer-beater or game-winner intent the plays found in a game
\* do not depend on the path that scanned it: the worker pool and the
\* sequential loop find the same plays in every loaded game.
C28_PoolAndSequentialAgree ==
    (ScanDone /\ req.detail \in RareDetails) =>
        \A g \in okGames : Range(process_game(req, g)) = Range(SeqGameResults(req, g))

\* C30: a fetch_videos call leaves the season parameter as it found it: a
\* call that does not fall back does not touch the season, the fallback is
\* entered from season 2024-25 only and sets 2023-24 for the nested call,
\* and the nested call never falls back again and ends with the season
\* back at 2024-25, whatever its outcome.
C30_FetchRestoresSeason ==
    [][ /\ (pc = "primary_fetch" /\ pc' # "primary_fallback") => season' = season
        /\ (pc = "primary_fetch" /\ pc' = "primary_fallback") =>
               (season = DefaultSeason /\ season' = FallbackSeason)
        /\ pc = "primary_fallback" =>
               (season = FallbackSeason /\ pc' # "primary_fallback" /\ season' = DefaultSeason) ]_vars

\* the nested call for 2023-24 delivered videos and the season is 2024-25 again
C30_Witness ==
    /\ pc # "primary_fallback"
    /\ season = DefaultSeason
    /\ \E i \in 1..Len(fetched) : fetched[i].s = FallbackSeason

\* the nested call failed as well and the season is 2024-25 again
C30_WitnessNestedFails ==
    /\ pc # "primary_fallback"
    /\ season = DefaultSeason
    /\ lastCall.kind = "videos" /\ lastCall.outcome # "ok"
    /\ faults >= 2
    /\ fetched = <<>>

\* C27: while the engine fetches for a query that names no opponent team,
\* no opponent-team filter is among the parameters it sends upstream.
C27_NoStaleOpponent ==
    (pc \in {"primary_fetch", "primary_fallback"} /\ req.team = NoValue) => opponent = NoValue

\* the rows of the career record for the requested season, when the call answered
MatchingRows ==
    IF lookup.career.ok
    THEN SelectSeq(lookup.career.rows, LAMBDA row : row.season = lookup.season)
    ELSE <<>>

\* C22: for a player with an id (and no unknown team name), the team is the
\* one of the career row of the requested season; without such a row it is
\* the hard-coded team when the player is LeBron James; otherwise it is the
\* current team of the player-info call; and when that call fails no id at
\* all is returned.
C22_LayeredTeamResolution ==
    (ids # NotCalled /\ active_players(lookup.player) # NoValue /\ lookup.team # UnknownTeam) =>
        IF MatchingRows # <<>>
        THEN ids.player_id = active_players(lookup.player) /\ ids.team_id = MatchingRows[1].team
        ELSE IF lookup.player = LeBron
        THEN ids.player_id = LeBronId /\ ids.team_id = HardCodedTeam(lookup.season)
        ELSE IF lookup.info.ok
        THEN ids.player_id = active_players(lookup.player) /\ ids.team_id = lookup.info.team
        ELSE ids = NoIds

\* the career record has rows but none of the season, and the current team is used
C22_Witness ==
    /\ ids # NotCalled
    /\ lookup.player = LillardName
    /\ lookup.career.ok /\ lookup.career.rows # <<>> /\ MatchingRows = <<>>
    /\ lookup.info.ok
    /\ ids.team_id = Bucks

\* a career row of the season wins over the hard-coded team
C22_WitnessCareer ==
    /\ ids # NotCalled
    /\ lookup.player = LeBron /\ lookup.season = OldSeason
    /\ Len(MatchingRows) = 2
    /\ ids.team_id = Blazers

\* the hard-coded team is used after a failed career call
C22_WitnessException ==
    /\ ids # NotCalled
    /\ lookup.player = LeBron /\ lookup.season = MiamiSeason
    /\ ~lookup.career.ok
    /\ ids.team_id = Heat

\* every layer fails and no id is returned
C22_WitnessFails ==
    /\ ids = NoIds
    /\ lookup.player = LillardName /\ lookup.team = NoValue
    /\ ~lookup.info.ok

\* query() has fetched every context measure of the call
QueryDone == todo = <<>>

\* C23: every play kept for a game-tying request has a score differential of
\* zero after the play, and every play kept for a lead-taking request has a
\* differential that changes sign across the play, whatever keys the plays
\* of the response carry.
C23_ScoreContextKept ==
    (QueryDone /\ call.score \in {"GT", "LT"}) =>
        \A i \in 1..Len(all_videos) :
            LET r == all_videos[i]
                before == r.hpb - r.vpb
                after == r.hpa - r.vpa
            IN  IF call.score = "GT" THEN after = 0
                ELSE (before <= 0 /\ after > 0) \/ (before >= 0 /\ after < 0)

\* a clock shown as (0:00), (0:01), (0:0.X) or (0:1.X)
LastSecondToken(c) ==
    LET parts == ClockParts(c)
    IN  parts.min = 0 /\ ( (~parts.frac /\ parts.sec \in {"00", "01"})
                           \/ (parts.frac /\ parts.sec \in {"0", "1"}) )

Eis(rows) == {rows[i].ei : i \in 1..Len(rows)}

\* C24: when the plays carry neither Clock nor Time, a game-winner request
\* keeps, of the plays of the fourth period or later, exactly those whose
\* description shows (0:00), (0:01), (0:0.X) or (0:1.X).
C24_DescriptionClockFallback ==
    ( /\ QueryDone
      /\ call.asked = <<"FGA">> /\ call.score = "GW" /\ call.shots = {} /\ ~call.clutch
      /\ call.resp.shape = "dict"
      /\ "p" \in call.resp.cols /\ "cl" \notin call.resp.cols /\ "t" \notin call.resp.cols ) =>
        \A i \in 1..call.resp.n :
            SamplePlay(i).p >= 4 =>
                (SamplePlay(i).ei \in Eis(all_videos) <=> LastSecondToken(SamplePlay(i).cl))

\* the call with the same playlist delivered as a dictionary of result sets
AsDictionary(c) == [c EXCEPT !.resp.shape = "dict", !.resp.meta = "all"]

\* C25: a playlist delivered as a list of result sets, with or without a
\* 'Meta' set, gives the plays the same playlist gives when delivered as a
\* dictionary; a response of another shape gives no play.
C25_ShapesNormalised ==
    /\ (QueryDone /\ call.resp.shape = "list") =>
          Eis(all_videos) =
              UNION {Eis(fetch_videos(AsDictionary(call), m)) : m \in Range(QueryMeasures(call.asked))}
    /\ (QueryDone /\ call.resp.shape = "other") => all_videos = <<>>

\* C29: a query for missed shots does not fetch PTS, asks the upstream for
\* FGA, and returns no play that added points, whatever keys the plays of
\* the response carry.
C29_MissedShotsOnly ==
    (QueryDone /\ "MISS" \in Range(call.asked)) =>
        /\ sent = <<"FGA">>
        /\ \A i \in 1..Len(all_videos) : ~Scored(all_videos[i])
====
